---- MODULE Spec2Model ----
(***************************************************************************)
(* Field-level authorization over an admin CRUD surface                    *)
(* (fastapi_user_auth/mixins/admin.py, fastapi_user_auth/utils.py).        *)
(*                                                                         *)
(* Strings that the code builds by concatenation or formatting are         *)
(* modelled as tuples of their parts ("u:" + subject is <<"u:", subject>>, *)
(* f"page:{action}:{field}" is <<"page", action, field>>).  Python dicts   *)
(* are functions whose DOMAIN is the set of keys.                          *)
(***************************************************************************)
EXTENDS Integers, Sequences, FiniteSets, TLC

VARIABLES
    permission_exclude, \* AuthModelAdmin.permission_exclude (after __init__)
    perm_cache,         \* the cached_property values *_permission_fields: action -> dict
    effect,             \* policy engine: the enforce() requests it currently grants
    failing,            \* policy engine: the enforce() requests on which it currently raises
    identity,           \* auth.get_current_user_identity(request) of the current request
    scope,              \* request.scope of the current request
    req_no,             \* number of the current request
    ncalls,             \* operations run so far in the current request
    ret,                \* observation: the last get_deny_fields call (policy, failing: the engine's
                        \* state then; n: the operation of the request that made it; first: no
                        \* call on the action came before in the request)
    first_ret,          \* observation: action -> what the first call in this request returned
    out,                \* observation: the last lifecycle hook / route_read call
    p,                  \* policy engine: the "p" rules, (subject, v1, ..., v5)
    g,                  \* policy engine: the "g" grouping rules, (subject, role)
    g2,                 \* policy engine: the "g2" grouping rules, (parent id, child id)
    task,               \* the running casbin_update_* coroutines and where each stands
    last,               \* observation: the last casbin_update_* call that completed
    options_cache,      \* lru_cache of get_admin_action_options: the option dicts it holds
    opt_out,            \* observation: the last get_admin_action_options_by_subject call
    pure_out,           \* observation: the last call of a pure helper of utils.py
    history,            \* observation: the deny-set last computed for each action, in whatever
                        \* request, and (prev) the one computed before the last call's
    observed,           \* observation: what the last concurrent read of the engine saw
    race                \* observation: the permission list each coroutine was called with, and
                        \* whether a call started while another was running

adminVars == <<permission_exclude, perm_cache, effect, failing, identity, scope, req_no, ncalls,
               ret, first_ret, out>>
engineVars == <<p, g>>
updateVars == <<task, last>>
optionVars == <<options_cache, opt_out>>
siteVars == <<g2>>
pureVars == <<pure_out>>
historyVars == <<history>>
readVars == <<observed>>
raceVars == <<race>>

vars == <<adminVars, engineVars, updateVars, optionVars, siteVars, pureVars, historyVars, readVars, raceVars>>

(***************************************************************************)
(* Bounds and inputs                                                       *)
(***************************************************************************)
MaxRequests == 2
MaxCalls == 2
MaxItems == 2

None == "None"
EmptyDict == [k \in {} |-> {}]
Get(d, k, default) == IF k \in DOMAIN d THEN d[k] ELSE default
Put(d, k, v) == (k :> v) @@ d

\* SystemUserEnum (fastapi_user_auth.auth.schemas)
ROOT == "root"
GUEST == "guest"

unique_id == "res"

\* The five schemas of the resource: field names and which of them are required.
schema_list == [fields |-> {"id", "name", "salary"}, required |-> {"id"}]
schema_filter == [fields |-> {"name", "salary"}, required |-> {}]
schema_create == [fields |-> {"name", "salary"}, required |-> {}]
schema_read == [fields |-> {"id", "name", "salary"}, required |-> {"id"}]
schema_update == [fields |-> {"name", "salary"}, required |-> {}]

FieldActions == {"list", "filter", "create", "update", "read"}
\* action names a caller may pass to get_deny_fields; "delete" is not a field action
ActionInputs == FieldActions \cup {"delete"}

\* permission_exclude declarations a resource class may carry (None is the class default)
Declared(d) == [none |-> FALSE, dict |-> d]
ExcludeConfigs ==
    { [none |-> TRUE, dict |-> EmptyDict],
      Declared("all" :> {"salary"}),
      Declared(("read" :> {"salary"}) @@ ("update" :> {"name"})) }

Identities == {None, "alice"}

EnforceKey(subject, action, field) ==
    << <<"u:", subject>>, unique_id, <<"page", action, field>>, <<"page", action>> >>

\* policy states of the engine: the enforce() requests each one grants
GrantAll ==
    { EnforceKey(s, a, f) : s \in {"alice", GUEST}, a \in FieldActions, f \in {"id", "name", "salary"} }
Policies ==
    { {},
      GrantAll \ { EnforceKey("alice", "update", "name"), EnforceKey("alice", "create", "salary"),
                   EnforceKey("alice", "read", "salary"),
                   EnforceKey(GUEST, "list", "name"), EnforceKey(GUEST, "filter", "salary") } }

\* failure states of the engine: the enforce() requests on which each one raises
Failures ==
    { {}, GrantAll,
      { EnforceKey("alice", "create", "salary"), EnforceKey(GUEST, "list", "name") } }

Payload(D) == [f \in D |-> <<"v", f>>]
Payloads(schema) == { Payload(D) : D \in {schema.fields, schema.fields \ {"salary"}} }

(***************************************************************************)
(* Field-permission resolver (mixins/admin.py)                             *)
(***************************************************************************)

\* AuthModelAdmin.__init__: self.permission_exclude = self.permission_exclude or {}
InitPermissionExclude(declared) == IF declared.none THEN EmptyDict ELSE declared.dict

\* utils.get_schema_fields_name_label: {name: prefix + label} of the schema's fields
\* that are not excluded and (exclude_required) not required.
get_schema_fields_name_label(schema, prefix, exclude_required, exclude) ==
    [f \in {x \in schema.fields : x \notin exclude /\ (exclude_required => x \notin schema.required)}
        |-> <<prefix, f>>]

ExcludeFor_Mutant(conf, action) == Get(conf, "all", {})

\* exclude=[*all_exclude, *<action>_exclude]
ExcludeFor(conf, action) == Get(conf, "all", {}) \cup Get(conf, action, {})

get_permission_fields(conf, action) ==
    IF action = "list" THEN
        get_schema_fields_name_label(schema_list, "list-", TRUE, ExcludeFor(conf, "list"))
    ELSE IF action = "filter" THEN
        get_schema_fields_name_label(schema_filter, "filter-", TRUE, ExcludeFor(conf, "filter"))
    ELSE IF action = "create" THEN
        get_schema_fields_name_label(schema_create, "create-", TRUE, ExcludeFor(conf, "create"))
    ELSE IF action = "read" THEN
        get_schema_fields_name_label(schema_read, "read-", TRUE, ExcludeFor(conf, "read"))
    ELSE IF action = "update" THEN
        get_schema_fields_name_label(schema_update, "update-", TRUE, ExcludeFor(conf, "update"))
    ELSE EmptyDict

CachedPermissionFields_Mutant(cache, conf, action) ==
    IF action \in DOMAIN cache
    THEN [value |-> cache[action], cache |-> [cache EXCEPT ![action] = EmptyDict]]
    ELSE [value |-> get_permission_fields(conf, action),
          cache |-> Put(cache, action, get_permission_fields(conf, action))]

\* cached_property: the value is computed on first access and kept on the instance
CachedPermissionFields(cache, conf, action) ==
    IF action \in DOMAIN cache THEN [value |-> cache[action], cache |-> cache]
    ELSE LET v == get_permission_fields(conf, action)
         IN [value |-> v, cache |-> Put(cache, action, v)]

\* the policy engine's answer
enforce(eff, sub, obj, act_field, act) == <<sub, obj, act_field, act>> \in eff

SubjectOf_Mutant(ident) == ident

\* get_current_user_identity(request) or SystemUserEnum.GUEST
SubjectOf(ident) == IF ident = None THEN GUEST ELSE ident

\* has_field_permission: the enforce call it makes and the answer it returns
has_field_permission(eff, ident, field, action) ==
    LET subject == SubjectOf(ident)
        sub == <<"u:", subject>>
        act_field == <<"page", action, field>>
        act == <<"page", action>>
    IN [sub |-> sub, obj |-> unique_id, act_field |-> act_field, act |-> act,
        effect |-> enforce(eff, sub, unique_id, act_field, act)]

CacheHit_Mutant(request_cache, action) ==
    action \in DOMAIN request_cache /\ request_cache[action] # {}

\* if action in request_cache
CacheHit(request_cache, action) == action \in DOMAIN request_cache

CheckFields_Mutant(cache, conf, action) ==
    CachedPermissionFields(cache, conf, IF action \in FieldActions THEN action ELSE "list")

\* the if/elif chain choosing check_fields; an unrecognized action leaves it {}
CheckFields(cache, conf, action) ==
    IF action = "list" THEN CachedPermissionFields(cache, conf, "list")
    ELSE IF action = "filter" THEN CachedPermissionFields(cache, conf, "filter")
    ELSE IF action = "create" THEN CachedPermissionFields(cache, conf, "create")
    ELSE IF action = "update" THEN CachedPermissionFields(cache, conf, "update")
    ELSE IF action = "read" THEN CachedPermissionFields(cache, conf, "read")
    ELSE [value |-> EmptyDict, cache |-> cache]

DeniedOf_Mutant(calls) == { c.act_field[3] : c \in {x \in calls : x.effect} }

\* Enforcer.enforce raising instead of answering (storage unavailable, malformed rule)
enforce_raises(bad, sub, obj, act_field, act) == <<sub, obj, act_field, act>> \in bad

EnforceRaised_Mutant(bad, ident, check_fields, action) == FALSE

\* one of the has_field_permission calls of the comprehension raises: nothing in
\* has_field_permission or get_deny_fields catches it
EnforceRaised(bad, ident, check_fields, action) ==
    \E f \in check_fields :
        enforce_raises(bad, <<"u:", SubjectOf(ident)>>, unique_id, <<"page", action, f>>,
                       <<"page", action>>)

\* {field for field in check_fields if not await self.has_field_permission(...)}
DeniedOf(calls) == { c.act_field[3] : c \in {x \in calls : ~x.effect} }

\* get_deny_fields(request, action): the set returned, the request scope and the
\* instance cache afterwards, and the enforce calls answered.  When enforce raises the
\* call returns nothing (raised): the assignments after the comprehension are not run.
get_deny_fields(sc, cache, conf, eff, bad, ident, action) ==
    LET cache_key == <<unique_id, "_exclude_fields">>
        request_cache == Get(sc, cache_key, EmptyDict)
    IN IF CacheHit(request_cache, action)
       THEN [fields |-> request_cache[action], scope |-> sc, cache |-> cache,
             calls |-> {}, hit |-> TRUE, raised |-> FALSE]
       ELSE LET cf == CheckFields(cache, conf, action)
                check_fields == DOMAIN cf.value
                calls == { has_field_permission(eff, ident, f, action) : f \in check_fields }
                fields == DeniedOf(calls)
                stored == Put(request_cache, action, fields)
            IN IF EnforceRaised(bad, ident, check_fields, action)
               THEN [fields |-> {}, scope |-> sc, cache |-> cf.cache, calls |-> {},
                     hit |-> FALSE, raised |-> TRUE]
               ELSE [fields |-> fields,
                     scope |-> IF cache_key \notin DOMAIN sc THEN Put(sc, cache_key, stored)
                               ELSE [sc EXCEPT ![cache_key] = stored],
                     cache |-> cf.cache, calls |-> calls, hit |-> FALSE, raised |-> FALSE]

NoRet == [req |-> 0, action |-> None, fields |-> {}, calls |-> {}, hit |-> FALSE, policy |-> {},
          raised |-> FALSE, failing |-> {}, n |-> 0, first |-> FALSE]
NoOut == [op |-> None, req |-> 0, input |-> <<>>, output |-> <<>>, status |-> None,
          perm |-> TRUE, scalar |-> FALSE, loaded |-> FALSE, nread |-> 0, n |-> 0]

\* what a sequence of get_deny_fields calls of one action leaves behind
DenyEffects(rets, action) ==
    LET r == rets[Len(rets)]
    IN /\ scope' = r.scope
       /\ perm_cache' = r.cache
       /\ ret' = [req |-> req_no, action |-> action, fields |-> r.fields, calls |-> r.calls,
                  hit |-> r.hit, policy |-> effect, raised |-> r.raised, failing |-> failing,
                  n |-> ncalls + 1, first |-> action \notin DOMAIN first_ret]
       /\ first_ret' = IF action \in DOMAIN first_ret \/ rets[1].raised THEN first_ret
                       ELSE Put(first_ret, action, rets[1].fields)

DenyNow(action) == get_deny_fields(scope, perm_cache, permission_exclude, effect, failing, identity, action)

NoComputation == [req |-> 0, fields |-> {}, policy |-> {}, identity |-> None]
NoHistory == [computed |-> EmptyDict, prev |-> NoComputation]

\* the record of a get_deny_fields call on an action: what was computed for the action
\* before, and what is computed now (a cache hit computes nothing)
Recorded(h, r, action) ==
    [prev |-> Get(h.computed, action, NoComputation),
     computed |-> IF r.hit \/ r.raised THEN h.computed
                  ELSE Put(h.computed, action,
                           [req |-> req_no, fields |-> r.fields, policy |-> effect,
                            identity |-> identity])]

\* a direct call of get_deny_fields
CallGetDenyFields(action) ==
    /\ ncalls < MaxCalls
    /\ DenyEffects(<<DenyNow(action)>>, action)
    /\ ncalls' = ncalls + 1
    /\ UNCHANGED <<permission_exclude, effect, failing, identity, req_no, out>>

\* the policy administrator changes a rule
PolicyChange(e) ==
    /\ e # effect
    /\ effect' = e
    /\ UNCHANGED <<permission_exclude, perm_cache, failing, identity, scope, req_no, ncalls,
                   ret, first_ret, out>>

\* the engine starts or stops raising (its storage goes away or comes back, a malformed
\* rule is loaded or removed)
EngineFailure(b) ==
    /\ b # failing
    /\ failing' = b
    /\ UNCHANGED <<permission_exclude, perm_cache, effect, identity, scope, req_no, ncalls,
                   ret, first_ret, out>>

FreshScope_Mutant(sc) == sc

\* request.scope of a new Request: a dict of its own, without the keys that
\* get_deny_fields wrote into the scope of an earlier request
FreshScope(sc) == EmptyDict

\* the next request arrives: a fresh Request object with a fresh scope
NewRequest(ident) ==
    /\ req_no < MaxRequests
    /\ req_no' = req_no + 1
    /\ identity' = ident
    /\ scope' = FreshScope(scope)
    /\ ncalls' = 0
    /\ ret' = NoRet
    /\ first_ret' = EmptyDict
    /\ out' = NoOut
    /\ UNCHANGED <<permission_exclude, perm_cache, effect, failing>>

(***************************************************************************)
(* Authorization-aware CRUD hooks (mixins/admin.py)                        *)
(***************************************************************************)

\* item.dict(exclude=exclude), obj.copy(exclude=exclude), {k: v ... if k not in exclude}
Strip(obj, exclude) == [f \in DOMAIN obj \ exclude |-> obj[f]]

Deny(sc, cache, conf, eff, bad, ident, action) == get_deny_fields(sc, cache, conf, eff, bad, ident, action)

\* a hook's result: the get_deny_fields calls it made (in order) and the data it passes
\* on; when get_deny_fields raised, the hook has no statement that catches it and
\* passes on nothing
Passed(r, data) ==
    [rets |-> <<r>>, data |-> IF r.raised THEN <<>> ELSE data, raised |-> r.raised]

on_list_after(sc, cache, conf, eff, bad, ident, items) ==
    LET r == Deny(sc, cache, conf, eff, bad, ident, "list")
    IN Passed(r, [i \in 1..Len(items) |-> Strip(items[i], r.fields)])

on_filter_pre(sc, cache, conf, eff, bad, ident, obj) ==
    LET data == obj
    IN IF DOMAIN data = {} THEN [rets |-> <<>>, data |-> <<data>>, raised |-> FALSE]
       ELSE LET r == Deny(sc, cache, conf, eff, bad, ident, "filter")
            IN Passed(r, <<Strip(data, r.fields)>>)

on_create_pre(sc, cache, conf, eff, bad, ident, obj) ==
    LET r == Deny(sc, cache, conf, eff, bad, ident, "create")
    IN Passed(r, <<Strip(obj, r.fields)>>)

on_update_pre_Mutant(sc, cache, conf, eff, bad, ident, obj) ==
    LET r == Deny(sc, cache, conf, eff, bad, ident, "create")
    IN Passed(r, <<Strip(obj, r.fields)>>)

on_update_pre(sc, cache, conf, eff, bad, ident, obj) ==
    LET r == Deny(sc, cache, conf, eff, bad, ident, "update")
    IN Passed(r, <<Strip(obj, r.fields)>>)

on_read_after(sc, cache, conf, eff, bad, ident, obj) ==
    LET r == Deny(sc, cache, conf, eff, bad, ident, "read")
    IN Passed(r, <<Strip(obj, r.fields)>>)

RECURSIVE read_each(_, _, _, _, _, _, _)
RECURSIVE ReadRest(_, _, _, _, _, _)

\* items = [await self.on_read_after(request, item) for item in items]
read_each(sc, cache, conf, eff, bad, ident, items) ==
    IF items = <<>> THEN [rets |-> <<>>, data |-> <<>>, raised |-> FALSE]
    ELSE ReadRest(on_read_after(sc, cache, conf, eff, bad, ident, Head(items)),
                  conf, eff, bad, ident, Tail(items))

Collected(h, rest) ==
    [rets |-> h.rets \o rest.rets, data |-> IF rest.raised THEN <<>> ELSE h.data \o rest.data,
     raised |-> rest.raised]

\* the later items are read on the request scope the call for the first one left; an
\* on_read_after that raises ends the comprehension
ReadRest(h, conf, eff, bad, ident, items) ==
    IF h.raised THEN h
    ELSE Collected(h, read_each(h.rets[1].scope, h.rets[1].cache, conf, eff, bad, ident, items))

\* if len(items) == 1: items = items[0]; return BaseApiOut(data=items)
Respond(h, n) ==
    [rets |-> h.rets, data |-> h.data, status |-> IF h.raised THEN "raised" ELSE "ok",
     scalar |-> Len(h.data) = 1, loaded |-> TRUE, nread |-> IF h.raised THEN Len(h.rets) ELSE n]

route_read_Mutant(sc, cache, conf, eff, bad, ident, has_read_permission, db_items) ==
    Respond(read_each(sc, cache, conf, eff, bad, ident, db_items), Len(db_items))

\* route_read's route(request, item_id); db_items is what _read_items loads
route_read(sc, cache, conf, eff, bad, ident, has_read_permission, db_items) ==
    IF ~has_read_permission
    THEN [rets |-> <<>>, data |-> <<>>, status |-> "error", scalar |-> FALSE,
          loaded |-> FALSE, nread |-> 0]
    ELSE Respond(read_each(sc, cache, conf, eff, bad, ident, db_items), Len(db_items))

HookEffects(rets, action) ==
    IF rets = <<>> THEN UNCHANGED <<scope, perm_cache, ret, first_ret>>
    ELSE DenyEffects(rets, action)

HookStep(op, action, input, h) ==
    /\ ncalls < MaxCalls
    /\ ncalls' = ncalls + 1
    /\ HookEffects(h.rets, action)
    /\ out' = [op |-> op, req |-> req_no, input |-> input, output |-> h.data,
               status |-> IF h.raised THEN "raised" ELSE "ok",
               perm |-> TRUE, scalar |-> FALSE, loaded |-> FALSE, nread |-> 0, n |-> ncalls + 1]
    /\ UNCHANGED <<permission_exclude, effect, failing, identity, req_no>>

ItemLists(schema) == { [i \in 1..n |-> Payload(schema.fields)] : n \in 0..MaxItems }

OnListAfter(items) ==
    HookStep("on_list_after", "list", items,
             on_list_after(scope, perm_cache, permission_exclude, effect, failing, identity, items))

OnFilterPre(obj) ==
    HookStep("on_filter_pre", "filter", <<obj>>,
             on_filter_pre(scope, perm_cache, permission_exclude, effect, failing, identity, obj))

OnCreatePre(obj) ==
    HookStep("on_create_pre", "create", <<obj>>,
             on_create_pre(scope, perm_cache, permission_exclude, effect, failing, identity, obj))

OnUpdatePre(obj) ==
    HookStep("on_update_pre", "update", <<obj>>,
             on_update_pre(scope, perm_cache, permission_exclude, effect, failing, identity, obj))

OnReadAfter(obj) ==
    HookStep("on_read_after", "read", <<obj>>,
             on_read_after(scope, perm_cache, permission_exclude, effect, failing, identity, obj))

\* a model field of a schema: its name and its alias (None when it has none)
ModelField(name, alias) == [name |-> name, alias |-> alias]
ModelFields ==
    { ModelField("name", None), ModelField("pay", "salary"), ModelField("salary", "pay") }

\* modelfield.alias or modelfield.name
AliasOrName(modelfield) ==
    IF modelfield.alias \in {None, ""} THEN modelfield.name ELSE modelfield.alias

\* what ModelAdmin.get_form_item / get_list_column (the super() calls) generate
DefaultFormItem(modelfield, action) ==
    [node |-> "FormItem", name |-> AliasOrName(modelfield), action |-> action]
DefaultListColumn(modelfield) == [node |-> "TableColumn", name |-> AliasOrName(modelfield)]

\* return None
NoNode == [node |-> None]

\* the return value of a schema generator: None for a denied field
Generated(r, act, name, default) ==
    [rets |-> <<r>>, data |-> IF r.raised THEN <<>> ELSE IF name \in r.fields THEN <<NoNode>>
                              ELSE <<default>>,
     raised |-> r.raised, act |-> act]

get_form_item_Mutant(sc, cache, conf, eff, bad, ident, modelfield, action) ==
    Generated(Deny(sc, cache, conf, eff, bad, ident, action), action,
              AliasOrName(modelfield), DefaultFormItem(modelfield, action))

\* get_form_item: act = "filter" if action == "list" else action
get_form_item(sc, cache, conf, eff, bad, ident, modelfield, action) ==
    LET act == IF action = "list" THEN "filter" ELSE action
    IN Generated(Deny(sc, cache, conf, eff, bad, ident, act), act,
                 AliasOrName(modelfield), DefaultFormItem(modelfield, action))

get_list_column(sc, cache, conf, eff, bad, ident, modelfield) ==
    Generated(Deny(sc, cache, conf, eff, bad, ident, "list"), "list",
              AliasOrName(modelfield), DefaultListColumn(modelfield))

GeneratorStep(op, input, h) == HookStep(op, h.act, input, h)

GetFormItem(modelfield, action) ==
    GeneratorStep("get_form_item", <<modelfield, action>>,
                  get_form_item(scope, perm_cache, permission_exclude, effect, failing, identity,
                                modelfield, action))

GetListColumn(modelfield) ==
    GeneratorStep("get_list_column", <<modelfield>>,
                  get_list_column(scope, perm_cache, permission_exclude, effect, failing,
                                  identity, modelfield))

RouteStep(has_read_permission, db_items, h) ==
    /\ ncalls < MaxCalls
    /\ ncalls' = ncalls + 1
    /\ HookEffects(h.rets, "read")
    /\ out' = [op |-> "route_read", req |-> req_no, input |-> db_items, output |-> h.data,
               status |-> h.status, perm |-> has_read_permission, scalar |-> h.scalar,
               loaded |-> h.loaded, nread |-> h.nread, n |-> ncalls + 1]
    /\ UNCHANGED <<permission_exclude, effect, failing, identity, req_no>>

RouteRead(has_read_permission, db_items) ==
    RouteStep(has_read_permission, db_items,
              route_read(scope, perm_cache, permission_exclude, effect, failing, identity,
                         has_read_permission, db_items))

(***************************************************************************)
(* Permission encoding (utils.py).  A string is the sequence of its parts; *)
(* "#" and "," are parts of their own, no other part contains them.        *)
(***************************************************************************)
NSegments == 5

Join_Mutant(sep, values) == IF values = <<>> THEN <<>> ELSE values[1]

RECURSIVE Join(_, _)
\* sep.join(values)
Join(sep, values) ==
    IF values = <<>> THEN <<>>
    ELSE IF Len(values) = 1 THEN values[1]
    ELSE values[1] \o <<sep>> \o Join(sep, Tail(values))

RECURSIVE Split(_, _)
\* string.split(sep): always at least one piece, "".split(sep) == [""]
Split(string, sep) ==
    IF \A i \in 1..Len(string) : string[i] # sep THEN <<string>>
    ELSE LET i == CHOOSE k \in 1..Len(string) :
                    string[k] = sep /\ \A j \in 1..(k - 1) : string[j] # sep
         IN <<SubSeq(string, 1, i - 1)>> \o Split(SubSeq(string, i + 1, Len(string)), sep)

PadSegments_Mutant(values) ==
    IF Len(values) < NSegments - 1
    THEN values \o [i \in 1..(NSegments - 1 - Len(values)) |-> <<>>]
    ELSE values

\* values.extend([""] * (5 - len(values))) when len(values) < 5
PadSegments(values) ==
    IF Len(values) < NSegments
    THEN values \o [i \in 1..(NSegments - Len(values)) |-> <<>>]
    ELSE values

casbin_permission_encode(field_values) == Join("#", PadSegments(field_values))

casbin_permission_decode(permission) == PadSegments(Split(permission, "#"))

BuiltinActions_Mutant == {"list", "update", "create", "read", "submit"}

\* the raw action names with a key of their own below "admin:page:"
BuiltinActions == {"list", "update", "bulk_update", "create", "bulk_create", "read", "submit"}

\* encode_admin_action: perfix grows by concatenation, the action is appended
encode_admin_action(action) ==
    LET perfix == <<"admin:">>
    IN IF action \in {"page"} THEN perfix \o <<action>>
       ELSE IF action \in BuiltinActions THEN perfix \o <<"page:">> \o <<action>>
       ELSE perfix \o <<"page:">> \o <<"action:">> \o <<action>>

\* inputs of the helpers: segments without "#", value tuples, permission strings
MaxLen == 6
Segments == { <<>>, <<"a">>, <<"a", "b">> }
FieldValues == UNION { [1..n -> Segments] : n \in 0..NSegments }
RawStrings == UNION { [1..n -> {"a", "#"}] : n \in 0..MaxLen }
RawActions ==
    {"page", "list", "update", "bulk_update", "create", "bulk_create", "read", "submit",
     "delete", "bulk_delete", "export", "Page", "filter", ""}

NoPure == [op |-> None, values |-> <<>>, string |-> <<>>, decoded |-> <<>>]

\* casbin_permission_encode(*field_values)
CallEncode(field_values) ==
    pure_out' = [op |-> "encode", values |-> field_values,
                 string |-> casbin_permission_encode(field_values), decoded |-> <<>>]

\* casbin_permission_decode of the string the last encode returned
CallDecodeEncoded ==
    /\ pure_out.op = "encode"
    /\ pure_out' = [pure_out EXCEPT !.op = "roundtrip",
                                    !.decoded = casbin_permission_decode(pure_out.string)]

\* casbin_permission_decode(permission)
CallDecode(permission) ==
    pure_out' = [op |-> "decode", values |-> <<>>, string |-> permission,
                 decoded |-> casbin_permission_decode(permission)]

\* encode_admin_action(action)
CallEncodeAdminAction(action) ==
    pure_out' = [op |-> "encode_admin_action", values |-> <<action>>,
                 string |-> encode_admin_action(action), decoded |-> <<>>]

(***************************************************************************)
(* Policy engine adapter (utils.py) over the engine's rule sets            *)
(***************************************************************************)

\* Enforcer.get_permissions_for_user: the p rules whose first field is the subject
get_permissions_for_user(pol, subject) == { r \in pol : r[1] = subject }

\* the roles a subject has, directly or through other roles
RECURSIVE ImplicitRoles(_, _, _)
ImplicitRoles(grp, names, n) ==
    IF n = 0 THEN names
    ELSE ImplicitRoles(grp, names \cup { r[2] : r \in { x \in grp : x[1] \in names } }, n - 1)

\* Enforcer.get_implicit_permissions_for_user: the rules of the subject and of its roles
get_implicit_permissions_for_user(pol, grp, subject) ==
    { r \in pol : r[1] \in ImplicitRoles(grp, {subject}, Cardinality(grp)) }

\* casbin_get_subject_permissions: the subject column dropped, the rest re-encoded
casbin_get_subject_permissions(pol, grp, subject, implicit) ==
    LET permissions == IF implicit THEN get_implicit_permissions_for_user(pol, grp, subject)
                       ELSE get_permissions_for_user(pol, subject)
    IN { casbin_permission_encode(Tail(permission)) : permission \in permissions }

\* Enforcer.remove_policies / add_policies / delete_roles_for_user / add_grouping_policies
remove_policies(pol, rules) == pol \ rules
add_policies(pol, rules) == pol \cup rules
delete_roles_for_user(grp, subject) == { r \in grp : r[1] # subject }
add_grouping_policies(grp, rules) == grp \cup rules

\* new_rules of casbin_update_subject_permissions
NewRules(subject, permissions) ==
    { <<subject>> \o casbin_permission_decode(permissions[i]) : i \in 1..Len(permissions) }

RemoveRules_Mutant(old_rules, new_rules) == {}

\* remove_rules = old_rules - new_rules
RemoveRules(old_rules, new_rules) == old_rules \ new_rules

\* add_rules = new_rules - old_rules
AddRules(old_rules, new_rules) == new_rules \ old_rules

\* new_roles of casbin_update_subject_roles
NewRoles(subject, role_keys) ==
    LET roles == Split(role_keys, ",")
    IN { <<subject, <<"r:">> \o roles[i]>> : i \in { k \in 1..Len(roles) : roles[k] # <<>> } }

RolesDeleted_Mutant(grp, subject) == grp

\* await enforcer.delete_roles_for_user(subject)
RolesDeleted(grp, subject) == delete_roles_for_user(grp, subject)

Tasks == {"t1", "t2"}
Alice == <<"u:", "alice">>
Bob == <<"u:", "bob">>
\* the subjects that hold rules, and the subjects whose rules are replaced
RuleSubjects == {Alice, Bob}
UpdateSubjects == {Alice}

\* well-formed permission strings: five segments
PermPage == <<"users", "#", "admin:", "page", "#", "#", "#">>
PermList == <<"users", "#", "admin:", "list", "#", "f", "#", "v", "#", "x">>
PermStrings == {PermPage, PermList}
MaxPerms == 2
PermLists == UNION { [1..n -> PermStrings] : n \in 0..MaxPerms }

RoleKeyInputs == { <<>>, <<"a">>, <<"a", ",", "b">>, <<"b", ",">> }
RoleNames == { <<"r:", "a">>, <<"r:", "b">> }

Idle == [op |-> None, pc |-> "idle", subject |-> <<>>, arg |-> <<>>, remove |-> {}, add |-> {},
         pre |-> {}, dirty |-> FALSE]
NoLast == [op |-> None, subject |-> <<>>, arg |-> <<>>, clean |-> TRUE, pre |-> {}, post |-> {},
           repeat |-> FALSE, returned |-> <<>>]

\* task t wrote to the engine: every other running call has had a concurrent writer
AfterWrite(tk, t, changed) ==
    [u \in Tasks |-> IF u # t /\ tk[u].pc # "idle" /\ changed
                     THEN [tk[u] EXCEPT !.dirty = TRUE] ELSE tk[u]]

\* the call of task t returns: it is recorded and the task is free again
\* (grp: the grouping relation the call writes, g or g2)
Completed(tk, t, call, pol, grp) ==
    /\ last' = [op |-> call.op, subject |-> call.subject, arg |-> call.arg,
                clean |-> ~call.dirty, pre |-> call.pre,
                post |-> IF call.op = "permissions"
                         THEN casbin_get_subject_permissions(pol, grp, call.subject, FALSE)
                         ELSE IF call.op = "grouping" THEN grp
                         ELSE { r \in grp : r[1] = call.subject },
                repeat |-> /\ call.op \in {"roles", "grouping"}
                           /\ last.op = call.op /\ last.subject = call.subject
                           /\ last.arg = call.arg /\ last.clean /\ last.post = call.pre,
                returned |-> IF call.op = "permissions" THEN call.arg ELSE <<>>]
    /\ task' = [tk EXCEPT ![t] = Idle]

\* casbin_update_subject_permissions up to its first write: the read of old_rules and
\* the two differences
PermStart(t, subject, permissions) ==
    /\ task[t].pc = "idle"
    /\ LET old_rules == get_permissions_for_user(p, subject)
           new_rules == NewRules(subject, permissions)
           call == [op |-> "permissions", pc |-> "remove", subject |-> subject,
                    arg |-> permissions,
                    remove |-> RemoveRules(old_rules, new_rules),
                    add |-> AddRules(old_rules, new_rules),
                    pre |-> casbin_get_subject_permissions(p, g, subject, FALSE),
                    dirty |-> FALSE]
       IN IF call.remove # {} THEN task' = [task EXCEPT ![t] = call] /\ UNCHANGED last
          ELSE IF call.add # {} THEN task' = [task EXCEPT ![t] = [call EXCEPT !.pc = "add"]]
                                     /\ UNCHANGED last
          ELSE Completed(task, t, call, p, g)
    /\ UNCHANGED <<p, g>>

NoCall == [made |-> FALSE, permissions |-> <<>>]
NoRace == [called |-> [t \in Tasks |-> NoCall], overlap |-> FALSE]

\* the one casbin_update_subject_permissions call of coroutine t starts
PermStartOnce(t, subject, permissions) ==
    /\ ~race.called[t].made
    /\ PermStart(t, subject, permissions)
    /\ race' = [called |-> [race.called EXCEPT
                               ![t] = [made |-> TRUE, permissions |-> permissions]],
                overlap |-> race.overlap \/ \E u \in Tasks \ {t} : task[u].pc # "idle"]

\* if remove_rules: await enforcer.remove_policies(remove_rules)
PermRemove(t) ==
    /\ task[t].op = "permissions" /\ task[t].pc = "remove"
    /\ p' = remove_policies(p, task[t].remove)
    /\ LET tk == AfterWrite(task, t, p' # p)
       IN IF task[t].add # {} THEN task' = [tk EXCEPT ![t].pc = "add"] /\ UNCHANGED last
          ELSE Completed(tk, t, task[t], p', g)
    /\ UNCHANGED g

\* if add_rules: await enforcer.add_policies(add_rules); return permissions
PermAdd(t) ==
    /\ task[t].op = "permissions" /\ task[t].pc = "add"
    /\ p' = add_policies(p, task[t].add)
    /\ Completed(AfterWrite(task, t, p' # p), t, task[t], p', g)
    /\ UNCHANGED g

\* the strategy the code has commented out: only the difference is removed
RolesStart_Mutant(t, subject, role_keys) ==
    /\ task[t].pc = "idle"
    /\ g' = { r \in g : r[1] # subject \/ r \in NewRoles(subject, role_keys) }
    /\ LET new_roles == NewRoles(subject, role_keys)
           call == [op |-> "roles", pc |-> "add", subject |-> subject, arg |-> role_keys,
                    remove |-> {}, add |-> new_roles,
                    pre |-> { r \in g : r[1] = subject }, dirty |-> FALSE]
           tk == AfterWrite(task, t, g' # g)
       IN IF new_roles # {} THEN task' = [tk EXCEPT ![t] = call] /\ UNCHANGED last
          ELSE Completed(tk, t, call, p, g')
    /\ UNCHANGED p

\* casbin_update_subject_roles up to and including delete_roles_for_user
RolesStart(t, subject, role_keys) ==
    /\ task[t].pc = "idle"
    /\ g' = RolesDeleted(g, subject)
    /\ LET new_roles == NewRoles(subject, role_keys)
           call == [op |-> "roles", pc |-> "add", subject |-> subject, arg |-> role_keys,
                    remove |-> {}, add |-> new_roles,
                    pre |-> { r \in g : r[1] = subject }, dirty |-> FALSE]
           tk == AfterWrite(task, t, g' # g)
       IN IF new_roles # {} THEN task' = [tk EXCEPT ![t] = call] /\ UNCHANGED last
          ELSE Completed(tk, t, call, p, g')
    /\ UNCHANGED p

\* if new_roles: await enforcer.add_grouping_policies(new_roles)
RolesAdd(t) ==
    /\ task[t].op = "roles" /\ task[t].pc = "add"
    /\ g' = add_grouping_policies(g, task[t].add)
    /\ Completed(AfterWrite(task, t, g' # g), t, task[t], p, g')
    /\ UNCHANGED p

NoObserved == [subject |-> <<>>, roles |-> {}, during |-> FALSE, old |-> {}, new |-> {}]

\* the casbin_update_subject_roles calls for the subject that stand between their two
\* awaits and have had no other writer
RolesInFlight(tk, subject) ==
    { t \in Tasks : /\ tk[t].op = "roles" /\ tk[t].pc = "add"
                    /\ tk[t].subject = subject /\ ~tk[t].dirty }

\* another coroutine runs while the updates are suspended: an enforce for the subject
\* resolves the subject's roles from the g rules as they are now
ReadRoles(subject) ==
    /\ observed' =
         LET running == RolesInFlight(task, subject)
             roles == { r \in g : r[1] = subject }
         IN IF running = {}
            THEN [subject |-> subject, roles |-> roles, during |-> FALSE, old |-> {}, new |-> {}]
            ELSE [subject |-> subject, roles |-> roles, during |-> TRUE,
                  old |-> task[CHOOSE t \in running : TRUE].pre,
                  new |-> task[CHOOSE t \in running : TRUE].add]
    /\ UNCHANGED <<p, g, task, last>>

(***************************************************************************)
(* Resource-tree permission options (utils.py).  An option dict is a       *)
(* record; a key the code leaves out ("sort" and "children" of an action   *)
(* option, "children" of a plain page) is 0 or the empty list.             *)
(***************************************************************************)
Page(uid, sort) ==
    [unique_id |-> <<uid>>, kind |-> "page", page_schema |-> TRUE, label |-> uid, sort |-> sort,
     actions |-> <<>>, admins |-> <<>>]
Admin(uid, kind, sort, actions, admins) ==
    [unique_id |-> <<uid>>, kind |-> kind, page_schema |-> TRUE, label |-> uid, sort |-> sort,
     actions |-> actions, admins |-> admins]

\* the admin site: pages, model admins, a form admin and a sub-group
Site ==
    Admin("site", "group", 0, <<>>,
          << Admin("sys", "group", 1, <<>>,
                   << Admin("roles", "model", 1, <<"update">>, <<>>),
                      Admin("settings", "form", 2, <<>>, <<>>) >>),
             [Page("hidden", 9) EXCEPT !.page_schema = FALSE],
             Page("home", 3),
             Admin("users", "model", 2, <<"create", "update">>, <<>>) >>)

Option(label, value, sort, children) ==
    [label |-> label, value |-> value, sort |-> sort, children |-> children]

\* an action option: {"label": ..., "value": casbin_permission_encode(unique_id, "admin:<name>")}
ActionOption(admin, name) ==
    Option(name, casbin_permission_encode(<<admin.unique_id, <<"admin:", name>>>>), 0, <<>>)

RECURSIVE InsertBySort(_, _)
\* a stable descending insertion: the option goes behind those of equal sort
InsertBySort(sorted, o) ==
    IF sorted = <<>> THEN <<o>>
    ELSE IF Head(sorted).sort >= o.sort THEN <<Head(sorted)>> \o InsertBySort(Tail(sorted), o)
    ELSE <<o>> \o sorted

RECURSIVE SortBySortDesc(_)
\* options.sort(key=lambda p: p["sort"] or 0, reverse=True)
SortBySortDesc(options) ==
    IF options = <<>> THEN <<>>
    ELSE InsertBySort(SortBySortDesc(SubSeq(options, 1, Len(options) - 1)), options[Len(options)])

RECURSIVE get_admin_action_options(_)
RECURSIVE OptionItems(_)

\* the loop body of get_admin_action_options over the admins of a group
OptionItems(admins) ==
    IF admins = <<>> THEN <<>>
    ELSE LET admin == Head(admins)
             names == { admin.actions[i] : i \in 1..Len(admin.actions) }
             first == IF admin.kind = "model" THEN <<ActionOption(admin, "list")>>
                      ELSE IF admin.kind = "form" /\ "submit" \notin names
                           THEN <<ActionOption(admin, "submit")>>
                      ELSE <<>>
             children == IF admin.kind \in {"model", "form"}
                         THEN first \o [i \in 1..Len(admin.actions) |-> ActionOption(admin, admin.actions[i])]
                         ELSE IF admin.kind = "group" THEN get_admin_action_options(admin)
                         ELSE <<>>
             item == Option(admin.label,
                            casbin_permission_encode(<<admin.unique_id, <<"admin:", "page">>>>),
                            admin.sort, children)
         IN IF ~admin.page_schema THEN OptionItems(Tail(admins))
            ELSE <<item>> \o OptionItems(Tail(admins))

get_admin_action_options(group) == SortBySortDesc(OptionItems(group.admins))

filter_options_Shallow(options, allowed) ==
    [result |-> SelectSeq(options, LAMBDA o : o.value \in allowed), options |-> options]

RECURSIVE filter_options_Mutant(_, _)
filter_options_Mutant(options, allowed) ==
    IF options = <<>> THEN [result |-> <<>>, options |-> <<>>]
    ELSE LET option == Head(options)
             rest == filter_options_Mutant(Tail(options), allowed)
             sub == filter_options_Mutant(option.children, allowed).result
             kept == [option EXCEPT !.children = sub]
         IN IF sub = <<>> /\ option.value \notin allowed
            THEN [result |-> rest.result, options |-> <<option>> \o rest.options]
            ELSE [result |-> <<kept>> \o rest.result, options |-> <<kept>> \o rest.options]

RECURSIVE filter_options(_, _)
\* filter_options with filter_func = lambda item: item["value"] in allowed.
\* result: the list returned; options: the dicts of the list passed in, afterwards
\* (option["children"] = ... assigns into the dict the caller handed over)
filter_options(options, allowed) ==
    IF options = <<>> THEN [result |-> <<>>, options |-> <<>>]
    ELSE LET option == Head(options)
             rest == filter_options(Tail(options), allowed)
         IN IF option.value \notin allowed
            THEN [result |-> rest.result, options |-> <<option>> \o rest.options]
            ELSE LET kept == IF option.children # <<>>
                             THEN [option EXCEPT
                                     !.children = filter_options(option.children, allowed).result]
                             ELSE option
                 IN [result |-> <<kept>> \o rest.result, options |-> <<kept>> \o rest.options]

\* @lru_cache(): the list built by the first call is the one every later call returns
CachedOptions(cache, group) ==
    IF cache.built THEN cache.options ELSE get_admin_action_options(group)

Root == <<"u:", ROOT>>

\* get_admin_action_options_by_subject: what it returns, the permissions it filtered
\* with, and the cached option dicts afterwards
get_admin_action_options_by_subject(cache, pol, grp, subject, group) ==
    LET options == CachedOptions(cache, group)
    IN IF subject # Root
       THEN LET permissions == casbin_get_subject_permissions(pol, grp, subject, TRUE)
                f == filter_options(options, permissions)
            IN [result |-> f.result, permissions |-> permissions, input |-> options,
                cache |-> [built |-> TRUE, options |-> f.options]]
       ELSE [result |-> options, permissions |-> {}, input |-> options,
             cache |-> [built |-> TRUE, options |-> options]]

Staff == <<"r:", "staff">>
OptionSubjects == {Root, Alice, Bob}

Rule(subject, uid, name) == <<subject, <<uid>>, <<"admin:", name>>, <<>>, <<>>, <<>>>>

\* policy states of the engine for the option tree
OptionPolicies ==
    { [p |-> {}, g |-> {}],
      [p |-> { Rule(Alice, "users", "page"), Rule(Alice, "users", "list"),
               Rule(Alice, "home", "page"),
               Rule(Staff, "sys", "page"), Rule(Staff, "roles", "page"),
               Rule(Staff, "roles", "update") },
       g |-> { <<Bob, Staff>> }],
      [p |-> { Rule(Alice, "roles", "page"), Rule(Alice, "roles", "list"),
               Rule(Alice, "users", "page"), Rule(Alice, "users", "create"),
               Rule(Bob, "home", "page") },
       g |-> {}],
      [p |-> { Rule(Alice, "sys", "page"), Rule(Alice, "settings", "page"),
               Rule(Alice, "roles", "list"),
               Rule(Staff, "users", "page"), Rule(Staff, "users", "update") },
       g |-> { <<Bob, Staff>> }] }

NoOptOut == [subject |-> <<>>, permissions |-> {}, input |-> <<>>, result |-> <<>>]

CallOptionsBySubject(subject) ==
    LET r == get_admin_action_options_by_subject(options_cache, p, g, subject, Site)
    IN /\ options_cache' = r.cache
       /\ opt_out' = [subject |-> subject, permissions |-> r.permissions, input |-> r.input,
                      result |-> r.result]
       /\ UNCHANGED <<p, g>>

\* the policy administrator replaces the rules
SetPolicy(pol) ==
    /\ <<p, g>> # <<pol.p, pol.g>>
    /\ p' = pol.p
    /\ g' = pol.g
    /\ UNCHANGED <<options_cache, opt_out>>

(***************************************************************************)
(* Resource grouping (utils.py)                                            *)
(***************************************************************************)

\* admin.app: in the modelled site every group is the app of the admins it holds
AppOf(admin, group) == group

RECURSIVE get_admin_grouping(_)
RECURSIVE GroupingPairs(_, _)

\* the loop body of get_admin_grouping over the admins of a group
GroupingPairs(group, admins) ==
    IF admins = <<>> THEN <<>>
    ELSE LET admin == Head(admins)
             app == AppOf(admin, group)
         IN IF admin.unique_id = app.unique_id THEN GroupingPairs(group, Tail(admins))
            ELSE <<<<app.unique_id, admin.unique_id>>>>
                 \o (IF admin.kind = "group" THEN get_admin_grouping(admin) ELSE <<>>)
                 \o GroupingPairs(group, Tail(admins))

get_admin_grouping(group) == GroupingPairs(group, group.admins)

\* Enforcer.get_filtered_named_grouping_policy("g2", 0): every g2 rule
get_filtered_named_grouping_policy(grp2) == grp2
\* Enforcer.remove_named_grouping_policies / add_named_grouping_policies on "g2"
remove_named_grouping_policies(grp2, rules) == grp2 \ rules
add_named_grouping_policies(grp2, rules) == grp2 \cup rules

\* new_roles = set(get_admin_grouping(site))
NewSiteRoles(site) ==
    LET pairs == get_admin_grouping(site) IN { pairs[i] : i \in 1..Len(pairs) }

RemoveSiteRoles_Mutant(old_roles, new_roles) == {}

\* remove_roles = old_roles - new_roles
RemoveSiteRoles(old_roles, new_roles) == old_roles \ new_roles

\* add_roles = new_roles - old_roles
AddSiteRoles(old_roles, new_roles) == new_roles \ old_roles

\* casbin_update_site_grouping up to its first write: the read of the g2 rules and the
\* two differences
GroupingStart(t, site) ==
    /\ task[t].pc = "idle"
    /\ LET old_roles == get_filtered_named_grouping_policy(g2)
           new_roles == NewSiteRoles(site)
           call == [op |-> "grouping", pc |-> "remove", subject |-> site.unique_id,
                    arg |-> <<>>,
                    remove |-> RemoveSiteRoles(old_roles, new_roles),
                    add |-> AddSiteRoles(old_roles, new_roles),
                    pre |-> g2, dirty |-> FALSE]
       IN IF call.remove # {} THEN task' = [task EXCEPT ![t] = call] /\ UNCHANGED last
          ELSE IF call.add # {} THEN task' = [task EXCEPT ![t] = [call EXCEPT !.pc = "add"]]
                                     /\ UNCHANGED last
          ELSE Completed(task, t, call, p, g2)
    /\ UNCHANGED <<p, g, g2>>

\* if remove_roles: await enforcer.remove_named_grouping_policies("g2", remove_roles)
GroupingRemove(t) ==
    /\ task[t].op = "grouping" /\ task[t].pc = "remove"
    /\ g2' = remove_named_grouping_policies(g2, task[t].remove)
    /\ LET tk == AfterWrite(task, t, g2' # g2)
       IN IF task[t].add # {} THEN task' = [tk EXCEPT ![t].pc = "add"] /\ UNCHANGED last
          ELSE Completed(tk, t, task[t], p, g2')
    /\ UNCHANGED <<p, g>>

\* if add_roles: await enforcer.add_named_grouping_policies("g2", add_roles)
GroupingAdd(t) ==
    /\ task[t].op = "grouping" /\ task[t].pc = "add"
    /\ g2' = add_named_grouping_policies(g2, task[t].add)
    /\ Completed(AfterWrite(task, t, g2' # g2), t, task[t], p, g2')
    /\ UNCHANGED <<p, g>>

\* g2 rules that name resources the site no longer has, or no longer has there
StalePairs == { << <<"site">>, <<"gone">> >>, << <<"sys">>, <<"users">> >> }

\* prior contents of g2
InitialGroupings ==
    { a \cup b : a \in SUBSET StalePairs,
                 b \in { {}, { << <<"site">>, <<"sys">> >>, << <<"sys">>, <<"roles">> >> },
                          NewSiteRoles(Site) } }

(***************************************************************************)
(* Specifications                                                          *)
(***************************************************************************)
InitAdmin ==
    /\ permission_exclude \in { InitPermissionExclude(c) : c \in ExcludeConfigs }
    /\ perm_cache = EmptyDict
    /\ effect \in Policies
    /\ failing = {}
    /\ identity \in Identities
    /\ scope = EmptyDict
    /\ req_no = 1
    /\ ncalls = 0
    /\ ret = NoRet
    /\ first_ret = EmptyDict
    /\ out = NoOut

\* a resource that serves no request
AdminIdle ==
    /\ permission_exclude = EmptyDict
    /\ perm_cache = EmptyDict
    /\ effect = {}
    /\ failing = {}
    /\ identity = None
    /\ scope = EmptyDict
    /\ req_no = 1
    /\ ncalls = 0
    /\ ret = NoRet
    /\ first_ret = EmptyDict
    /\ out = NoOut

UpdateIdle == task = [t \in Tasks |-> Idle] /\ last = NoLast
PureIdle ==
    pure_out = NoPure /\ history = NoHistory /\ observed = NoObserved /\ race = NoRace
OptionsIdle == options_cache = [built |-> FALSE, options |-> <<>>] /\ opt_out = NoOptOut

NextAdmin ==
    \/ \E a \in ActionInputs : CallGetDenyFields(a) /\ UNCHANGED <<engineVars, updateVars, optionVars, siteVars, pureVars, historyVars, readVars, raceVars>>
    \/ \E e \in Policies : PolicyChange(e) /\ UNCHANGED <<engineVars, updateVars, optionVars, siteVars, pureVars, historyVars, readVars, raceVars>>
    \/ \E i \in Identities : NewRequest(i) /\ UNCHANGED <<engineVars, updateVars, optionVars, siteVars, pureVars, historyVars, readVars, raceVars>>

\* direct get_deny_fields calls under policy changes, over several requests
InitResource == InitAdmin /\ p = {} /\ g = {} /\ g2 = {} /\ UpdateIdle /\ PureIdle /\ OptionsIdle

SpecAdmin == InitResource /\ [][NextAdmin]_vars

NextHooks ==
    \/ \E items \in ItemLists(schema_list) :
          OnListAfter(items) /\ UNCHANGED <<engineVars, updateVars, optionVars, siteVars, pureVars, historyVars, readVars, raceVars>>
    \/ \E obj \in Payloads(schema_filter) \cup {Payload({})} :
          OnFilterPre(obj) /\ UNCHANGED <<engineVars, updateVars, optionVars, siteVars, pureVars, historyVars, readVars, raceVars>>
    \/ \E obj \in Payloads(schema_create) :
          OnCreatePre(obj) /\ UNCHANGED <<engineVars, updateVars, optionVars, siteVars, pureVars, historyVars, readVars, raceVars>>
    \/ \E obj \in Payloads(schema_update) :
          OnUpdatePre(obj) /\ UNCHANGED <<engineVars, updateVars, optionVars, siteVars, pureVars, historyVars, readVars, raceVars>>
    \/ \E obj \in Payloads(schema_read) :
          OnReadAfter(obj) /\ UNCHANGED <<engineVars, updateVars, optionVars, siteVars, pureVars, historyVars, readVars, raceVars>>
    \/ \E perm \in BOOLEAN, items \in ItemLists(schema_read) :
          RouteRead(perm, items) /\ UNCHANGED <<engineVars, updateVars, optionVars, siteVars, pureVars, historyVars, readVars, raceVars>>
    \/ \E e \in Policies : PolicyChange(e) /\ UNCHANGED <<engineVars, updateVars, optionVars, siteVars, pureVars, historyVars, readVars, raceVars>>
    \/ \E i \in Identities : NewRequest(i) /\ UNCHANGED <<engineVars, updateVars, optionVars, siteVars, pureVars, historyVars, readVars, raceVars>>

\* the lifecycle hooks and the read route under policy changes, over several requests
SpecHooks == InitResource /\ [][NextHooks]_vars

NextSchema ==
    \/ \E f \in ModelFields, a \in {"list", "filter", "update", "delete"} :
          GetFormItem(f, a)
          /\ UNCHANGED <<engineVars, updateVars, optionVars, siteVars, pureVars, historyVars, readVars, raceVars>>
    \/ \E f \in ModelFields :
          GetListColumn(f)
          /\ UNCHANGED <<engineVars, updateVars, optionVars, siteVars, pureVars, historyVars, readVars, raceVars>>
    \/ \E e \in Policies :
          PolicyChange(e)
          /\ UNCHANGED <<engineVars, updateVars, optionVars, siteVars, pureVars, historyVars, readVars, raceVars>>
    \/ \E i \in Identities :
          NewRequest(i)
          /\ UNCHANGED <<engineVars, updateVars, optionVars, siteVars, pureVars, historyVars, readVars, raceVars>>

\* generation of the form items and list columns of the UI schema
SpecSchema == InitResource /\ [][NextSchema]_vars

NextRequests ==
    \/ \E a \in {"list", "update"} :
          /\ CallGetDenyFields(a)
          /\ history' = Recorded(history, DenyNow(a), a)
          /\ UNCHANGED <<engineVars, updateVars, optionVars, siteVars, pureVars, readVars, raceVars>>
    \/ \E e \in Policies :
          PolicyChange(e)
          /\ UNCHANGED <<engineVars, updateVars, optionVars, siteVars, pureVars, historyVars, readVars, raceVars>>
    \/ \E i \in Identities :
          NewRequest(i)
          /\ UNCHANGED <<engineVars, updateVars, optionVars, siteVars, pureVars, historyVars, readVars, raceVars>>

\* get_deny_fields calls over several requests, with the computations remembered
InitRequests ==
    /\ permission_exclude = InitPermissionExclude(Declared("all" :> {"salary"}))
    /\ perm_cache = EmptyDict
    /\ effect \in Policies
    /\ failing = {}
    /\ identity \in Identities
    /\ scope = EmptyDict
    /\ req_no = 1
    /\ ncalls = 0
    /\ ret = NoRet
    /\ first_ret = EmptyDict
    /\ out = NoOut
    /\ p = {} /\ g = {} /\ g2 = {} /\ UpdateIdle /\ PureIdle /\ OptionsIdle

SpecRequests == InitRequests /\ [][NextRequests]_vars

NextFailing ==
    \/ \E items \in ItemLists(schema_list) :
          OnListAfter(items) /\ UNCHANGED <<engineVars, updateVars, optionVars, siteVars, pureVars, historyVars, readVars, raceVars>>
    \/ \E obj \in Payloads(schema_filter) \cup {Payload({})} :
          OnFilterPre(obj) /\ UNCHANGED <<engineVars, updateVars, optionVars, siteVars, pureVars, historyVars, readVars, raceVars>>
    \/ \E obj \in Payloads(schema_create) :
          OnCreatePre(obj) /\ UNCHANGED <<engineVars, updateVars, optionVars, siteVars, pureVars, historyVars, readVars, raceVars>>
    \/ \E obj \in Payloads(schema_update) :
          OnUpdatePre(obj) /\ UNCHANGED <<engineVars, updateVars, optionVars, siteVars, pureVars, historyVars, readVars, raceVars>>
    \/ \E obj \in Payloads(schema_read) :
          OnReadAfter(obj) /\ UNCHANGED <<engineVars, updateVars, optionVars, siteVars, pureVars, historyVars, readVars, raceVars>>
    \/ \E b \in Failures : EngineFailure(b) /\ UNCHANGED <<engineVars, updateVars, optionVars, siteVars, pureVars, historyVars, readVars, raceVars>>
    \/ \E i \in Identities : NewRequest(i) /\ UNCHANGED <<engineVars, updateVars, optionVars, siteVars, pureVars, historyVars, readVars, raceVars>>

\* the lifecycle hooks, and get_deny_fields within them, over an engine that may raise
InitFailing ==
    /\ permission_exclude = InitPermissionExclude([none |-> TRUE, dict |-> EmptyDict])
    /\ perm_cache = EmptyDict
    /\ effect \in Policies \ {{}}
    /\ failing \in Failures
    /\ identity \in Identities
    /\ scope = EmptyDict
    /\ req_no = 1
    /\ ncalls = 0
    /\ ret = NoRet
    /\ first_ret = EmptyDict
    /\ out = NoOut
    /\ p = {} /\ g = {} /\ g2 = {} /\ UpdateIdle /\ PureIdle /\ OptionsIdle

SpecFailing == InitFailing /\ [][NextFailing]_vars

PermRuleUniverse == { <<s>> \o casbin_permission_decode(q) : s \in RuleSubjects, q \in PermStrings }
\* the stored rule tables at the start: any of the updated subject's rules, and
\* another subject holding either no rule or every rule
InitialPermRules ==
    { a \cup b : a \in SUBSET { r \in PermRuleUniverse : r[1] \in UpdateSubjects },
                 b \in { {}, { r \in PermRuleUniverse : r[1] \notin UpdateSubjects } } }

NextPerms ==
    \/ \E t \in Tasks, s \in UpdateSubjects, P \in PermLists :
          PermStart(t, s, P) /\ UNCHANGED <<adminVars, optionVars, siteVars, pureVars, historyVars, readVars, raceVars>>
    \/ \E t \in Tasks : PermRemove(t) /\ UNCHANGED <<adminVars, optionVars, siteVars, pureVars, historyVars, readVars, raceVars>>
    \/ \E t \in Tasks : PermAdd(t) /\ UNCHANGED <<adminVars, optionVars, siteVars, pureVars, historyVars, readVars, raceVars>>

\* casbin_update_subject_permissions calls, interleaved at their awaits
InitPerms ==
    /\ AdminIdle /\ OptionsIdle /\ UpdateIdle /\ PureIdle
    /\ p \in InitialPermRules /\ g = {} /\ g2 = {}

SpecPerms == InitPerms /\ [][NextPerms]_vars

RoleRuleUniverse == { <<s, r>> : s \in RuleSubjects, r \in RoleNames }

NextRace ==
    \/ \E t \in Tasks, s \in UpdateSubjects, P \in PermLists :
          PermStartOnce(t, s, P)
          /\ UNCHANGED <<adminVars, optionVars, siteVars, pureVars, historyVars, readVars>>
    \/ \E t \in Tasks :
          PermRemove(t)
          /\ UNCHANGED <<adminVars, optionVars, siteVars, pureVars, historyVars, readVars, raceVars>>
    \/ \E t \in Tasks :
          PermAdd(t)
          /\ UNCHANGED <<adminVars, optionVars, siteVars, pureVars, historyVars, readVars, raceVars>>

\* two casbin_update_subject_permissions calls for one subject, one per coroutine,
\* interleaved at their awaits
SpecRace == InitPerms /\ [][NextRace]_vars

NextRoles ==
    \/ \E t \in Tasks, s \in UpdateSubjects, k \in RoleKeyInputs :
          RolesStart(t, s, k) /\ UNCHANGED <<adminVars, optionVars, siteVars, pureVars, historyVars, readVars, raceVars>>
    \/ \E t \in Tasks : RolesAdd(t) /\ UNCHANGED <<adminVars, optionVars, siteVars, pureVars, historyVars, readVars, raceVars>>
    \/ \E s \in UpdateSubjects :
          ReadRoles(s) /\ UNCHANGED <<adminVars, optionVars, siteVars, pureVars, historyVars, raceVars>>

\* casbin_update_subject_roles calls, interleaved at their awaits
InitRoles ==
    /\ AdminIdle /\ OptionsIdle /\ UpdateIdle /\ PureIdle
    /\ p = {} /\ g \in SUBSET RoleRuleUniverse /\ g2 = {}

SpecRoles == InitRoles /\ [][NextRoles]_vars

NextGrouping ==
    \/ \E t \in Tasks : GroupingStart(t, Site) /\ UNCHANGED <<adminVars, optionVars, pureVars, historyVars, readVars, raceVars>>
    \/ \E t \in Tasks : GroupingRemove(t) /\ UNCHANGED <<adminVars, optionVars, pureVars, historyVars, readVars, raceVars>>
    \/ \E t \in Tasks : GroupingAdd(t) /\ UNCHANGED <<adminVars, optionVars, pureVars, historyVars, readVars, raceVars>>

\* casbin_update_site_grouping calls, interleaved at their awaits
InitGrouping ==
    /\ AdminIdle /\ OptionsIdle /\ UpdateIdle /\ PureIdle
    /\ p = {} /\ g = {} /\ g2 \in InitialGroupings

SpecGrouping == InitGrouping /\ [][NextGrouping]_vars

NextPure ==
    \/ \E v \in FieldValues :
          CallEncode(v) /\ UNCHANGED <<adminVars, engineVars, updateVars, optionVars, siteVars, historyVars, readVars, raceVars>>
    \/ CallDecodeEncoded /\ UNCHANGED <<adminVars, engineVars, updateVars, optionVars, siteVars, historyVars, readVars, raceVars>>
    \/ \E q \in RawStrings :
          CallDecode(q) /\ UNCHANGED <<adminVars, engineVars, updateVars, optionVars, siteVars, historyVars, readVars, raceVars>>
    \/ \E a \in RawActions :
          CallEncodeAdminAction(a)
          /\ UNCHANGED <<adminVars, engineVars, updateVars, optionVars, siteVars, historyVars, readVars, raceVars>>

\* calls of the pure helpers casbin_permission_encode, casbin_permission_decode and
\* encode_admin_action
InitPure ==
    /\ AdminIdle /\ OptionsIdle /\ UpdateIdle /\ PureIdle
    /\ p = {} /\ g = {} /\ g2 = {}

SpecPure == InitPure /\ [][NextPure]_vars

NextOptions ==
    \/ \E s \in OptionSubjects :
          CallOptionsBySubject(s) /\ UNCHANGED <<adminVars, updateVars, siteVars, pureVars, historyVars, readVars, raceVars>>
    \/ \E pol \in OptionPolicies : SetPolicy(pol) /\ UNCHANGED <<adminVars, updateVars, siteVars, pureVars, historyVars, readVars, raceVars>>

\* get_admin_action_options_by_subject calls by several subjects under policy changes
InitOptions ==
    /\ AdminIdle /\ OptionsIdle /\ UpdateIdle /\ PureIdle
    /\ \E pol \in OptionPolicies : p = pol.p /\ g = pol.g
    /\ g2 = {}

SpecOptions == InitOptions /\ [][NextOptions]_vars

(***************************************************************************)
(* Properties of the field-permission resolver and the hooks               *)
(***************************************************************************)

\* the subject has_field_permission must ask the engine about
ExpectedSub == <<"u:", IF identity = None THEN GUEST ELSE identity>>

\* C1: within one request, every get_deny_fields call on an action returns the set the
\* first call on that action returned, also when that set is empty and also when the
\* policy engine's rules changed in between.
C1_SameSetWithinRequest ==
    (ret.req = req_no /\ ret.action \in DOMAIN first_ret) => ret.fields = first_ret[ret.action]

\* a second call returns the empty set of the first although the current policy
\* would now deny a field
C1_Witness ==
    /\ ret.req = req_no /\ ret.hit /\ ret.fields = {} /\ ret.policy # effect
    /\ ret.action \in FieldActions
    /\ get_deny_fields(EmptyDict, perm_cache, permission_exclude, effect, failing, identity,
                       ret.action).fields # {}

\* C6: a field excluded under "all" or under an action is in no Permission Field Set of
\* that action (computed or cached) and in no deny-set returned or stored for it.
C6_ExcludedNeverDeniable ==
    \A a \in FieldActions :
        \A f \in Get(permission_exclude, "all", {}) \cup Get(permission_exclude, a, {}) :
            /\ f \notin DOMAIN get_permission_fields(permission_exclude, a)
            /\ a \in DOMAIN perm_cache => f \notin DOMAIN perm_cache[a]
            /\ ret.action = a => f \notin ret.fields
            /\ \A k \in DOMAIN scope : a \in DOMAIN scope[k] => f \notin scope[k][a]

\* "name" is excluded for update only, the engine refuses it, and the deny-set of update
\* holds another field but not "name"
C6_Witness ==
    /\ "name" \in Get(permission_exclude, "update", {})
    /\ ret.action = "update" /\ ~ret.hit /\ ret.fields = {"salary"}
    /\ ~enforce(ret.policy, ExpectedSub, unique_id, <<"page", "update", "name">>, <<"page", "update">>)

\* C7: a first call for a recognized action asks the engine once per key of the action's
\* Permission Field Set, as ("u:" + subject-or-guest, unique id, "page:<action>:<f>",
\* "page:<action>"), and returns exactly the keys the engine refused.
C7_DenyIffEnforceFalse ==
    (ret.req = req_no /\ ~ret.hit /\ ret.action \in FieldActions) =>
        LET a == ret.action
            keys == DOMAIN get_permission_fields(permission_exclude, a)
        IN /\ ret.calls = { [sub |-> ExpectedSub, obj |-> unique_id,
                             act_field |-> <<"page", a, f>>, act |-> <<"page", a>>,
                             effect |-> (<<ExpectedSub, unique_id, <<"page", a, f>>, <<"page", a>> >>
                                            \in ret.policy)] : f \in keys }
           /\ ret.fields = { f \in keys : \E c \in ret.calls : c.act_field[3] = f /\ ~c.effect }

\* an unauthenticated request: guest is refused one field and granted another
C7_Witness ==
    /\ ret.req = req_no /\ ~ret.hit /\ ret.action = "list" /\ identity = None
    /\ ret.fields = {"name"}
    /\ \E c \in ret.calls : c.effect /\ c.sub = <<"u:", GUEST>>

\* C10: for an action outside the five field actions get_deny_fields returns the empty
\* set and makes no enforce call.
C10_UnknownActionEmpty ==
    (ret.action # None /\ ret.action \notin FieldActions) => (ret.fields = {} /\ ret.calls = {})

C10_Witness ==
    /\ ret.action = "delete" /\ ~ret.hit /\ ret.req = req_no
    /\ ret.policy = {}
    /\ <<unique_id, "_exclude_fields">> \in DOMAIN scope
    /\ scope[<<unique_id, "_exclude_fields">>]["delete"] = {}

HookAction ==
    [on_list_after |-> "list", on_filter_pre |-> "filter", on_create_pre |-> "create",
     on_update_pre |-> "update", on_read_after |-> "read"]

\* C8: each hook passes on exactly the input without the fields get_deny_fields gives
\* for the hook's own action: nothing denied stays, nothing else is dropped or changed.
C8_HookStripsOwnDenySet ==
    (out.req = req_no /\ out.op \in DOMAIN HookAction) =>
        LET D == DenyNow(HookAction[out.op]).fields
        IN /\ Len(out.output) = Len(out.input)
           /\ \A i \in 1..Len(out.input) :
                /\ DOMAIN out.output[i] = DOMAIN out.input[i] \ D
                /\ \A f \in DOMAIN out.output[i] : out.output[i][f] = out.input[i][f]

\* on_create_pre drops "salary" (denied for create) and keeps "name", which is denied
\* for update
C8_Witness ==
    /\ out.req = req_no /\ out.op = "on_create_pre"
    /\ DOMAIN out.input[1] = {"name", "salary"}
    /\ DOMAIN out.output[1] = {"name"}
    /\ "name" \in DenyNow("update").fields

\* C9: route_read answers the error response without loading or calling on_read_after
\* when the read gate refuses; otherwise every loaded item went through on_read_after
\* and a single item is returned as a scalar.
C9_RouteReadGateFirst ==
    (out.req = req_no /\ out.op = "route_read") =>
        /\ ~out.perm => (out.status = "error" /\ ~out.loaded /\ out.nread = 0 /\ out.output = <<>>)
        /\ out.perm =>
            /\ out.status = "ok" /\ out.loaded
            /\ out.nread = Len(out.input) /\ Len(out.output) = Len(out.input)
            /\ \A i \in 1..Len(out.input) :
                 /\ DOMAIN out.output[i] = DOMAIN out.input[i] \ DenyNow("read").fields
                 /\ \A f \in DOMAIN out.output[i] : out.output[i][f] = out.input[i][f]
            /\ out.scalar = (Len(out.input) = 1)

\* one item, returned as a scalar, with a field stripped by on_read_after
C9_Witness ==
    /\ out.req = req_no /\ out.op = "route_read" /\ out.perm /\ out.scalar
    /\ Len(out.output) = 1
    /\ DOMAIN out.output[1] # DOMAIN out.input[1]

(***************************************************************************)
(* Properties of the policy engine adapter                                 *)
(***************************************************************************)

\* C2: when casbin_update_subject_permissions(subject, P) completes and no other call
\* wrote meanwhile, casbin_get_subject_permissions(subject) is, as a set, exactly the
\* strings of P, whatever the subject held before.
C2_PermissionsReplaced ==
    (last.op = "permissions" /\ last.clean) =>
        last.post = { last.arg[i] : i \in 1..Len(last.arg) }

\* the subject held a permission that is not in P, and P holds one it did not have
C2_Witness ==
    /\ last.op = "permissions" /\ last.clean
    /\ last.pre = {PermPage} /\ last.arg = <<PermList>> /\ last.post = {PermList}

\* the role names a role string stands for
ExpectedRoleNames(role_keys) ==
    CASE role_keys = <<>> -> {}
      [] role_keys = <<"a">> -> {"a"}
      [] role_keys = <<"a", ",", "b">> -> {"a", "b"}
      [] role_keys = <<"b", ",">> -> {"b"}

\* C5: when casbin_update_subject_roles(subject, keys) completes and no other call wrote
\* meanwhile, the subject's role memberships are exactly (subject, "r:" + name) for the
\* names in keys (none for ""), whatever it had before; a second call with the same
\* keys leaves them as the first did.
C5_RolesReplaced ==
    (last.op = "roles" /\ last.clean) =>
        /\ last.post = { <<last.subject, <<"r:", n>>>> : n \in ExpectedRoleNames(last.arg) }
        /\ last.repeat => last.post = last.pre

\* the second of two calls with "a,b"
C5_Witness ==
    /\ last.op = "roles" /\ last.clean /\ last.repeat
    /\ last.arg = <<"a", ",", "b">>
    /\ last.post = { <<Alice, <<"r:", "a">>>>, <<Alice, <<"r:", "b">>>> }

(***************************************************************************)
(* Properties of the permission-option tree                                *)
(***************************************************************************)

RECURSIVE Paths(_)
\* the nodes of an option tree, each as the values from a top-level option down to it
Paths(options) ==
    UNION { {<<options[i].value>>}
              \cup { <<options[i].value>> \o q : q \in Paths(options[i].children) }
            : i \in 1..Len(options) }

Filtered == opt_out.subject \in OptionSubjects \ {Root}

C4_RootSeesFullTree ==
    opt_out.subject = Root => opt_out.result = get_admin_action_options(Site)

(***************************************************************************)
(* Properties under a failing engine                                       *)
(***************************************************************************)

\* C11: if enforce raises while get_deny_fields computes the deny-set of an action, the
\* call raises: it returns no set and leaves no deny-set for that action in the
\* request-scoped cache; the hook that called it raises too and passes on no data.
C11_FailClosed ==
    /\ (ret.req = req_no /\ ~ret.hit /\ ret.action \in FieldActions
          /\ \E f \in DOMAIN get_permission_fields(permission_exclude, ret.action) :
                EnforceKey(SubjectOf(identity), ret.action, f) \in ret.failing)
        => ret.raised
    /\ (ret.req = req_no /\ ret.raised)
        => /\ ret.fields = {}
           /\ ret.action \notin DOMAIN Get(scope, <<unique_id, "_exclude_fields">>, EmptyDict)
    /\ (out.req = req_no /\ out.op \in DOMAIN HookAction /\ ret.req = req_no /\ ret.n = out.n
          /\ ret.raised)
        => out.status = "raised"
    /\ out.status = "raised" => out.output = <<>>

\* on_create_pre raises on a full payload in a request whose cache already holds the
\* deny-set of another action
C11_Witness ==
    /\ out.req = req_no /\ out.op = "on_create_pre" /\ out.status = "raised"
    /\ DOMAIN out.input[1] = {"name", "salary"}
    /\ ret.raised /\ ret.n = out.n /\ ret.action = "create"
    /\ DOMAIN Get(scope, <<unique_id, "_exclude_fields">>, EmptyDict) = {"update"}

(***************************************************************************)
(* Properties of the resource grouping                                     *)
(***************************************************************************)

\* C12: when casbin_update_site_grouping(site) completes and no other call wrote
\* meanwhile, g2 is exactly the set of pairs of get_admin_grouping(site), whatever it
\* held before, and a second call leaves it as the first did.
C12_GroupingReplaced ==
    (last.op = "grouping" /\ last.clean) =>
        /\ last.post = NewSiteRoles(Site)
        /\ last.repeat => last.post = last.pre

\* g2 held a stale pair and only a part of the tree; afterwards it holds the six
\* parent-child pairs of the site
C12_Witness ==
    /\ last.op = "grouping" /\ last.clean
    /\ << <<"site">>, <<"gone">> >> \in last.pre
    /\ << <<"site">>, <<"users">> >> \notin last.pre
    /\ last.post = { << <<"site">>, <<"sys">> >>, << <<"sys">>, <<"roles">> >>,
                     << <<"sys">>, <<"settings">> >>, << <<"site">>, <<"hidden">> >>,
                     << <<"site">>, <<"home">> >>, << <<"site">>, <<"users">> >> }

(***************************************************************************)
(* Properties of the pure helpers                                          *)
(***************************************************************************)

\* C13: for five strings without "#", empty ones included, decoding the encoded
\* string gives the five strings back.
C13_RoundTrip ==
    (pure_out.op = "roundtrip" /\ Len(pure_out.values) = NSegments) =>
        pure_out.decoded = pure_out.values

\* five strings of which the first, the middle and the last are empty
C13_Witness ==
    /\ pure_out.op = "roundtrip"
    /\ pure_out.values = << <<>>, <<"a">>, <<>>, <<"a", "b">>, <<>> >>
    /\ pure_out.string = <<"#", "a", "#", "#", "a", "b", "#">>
    /\ pure_out.decoded = pure_out.values

\* the number of "#" in a string
Delimiters(string) == Cardinality({ i \in 1..Len(string) : string[i] = "#" })

\* C14 as claimed: casbin_permission_decode returns exactly 5 segments for every string.
C14_ExactlyFive ==
    pure_out.op = "decode" => Len(pure_out.decoded) = NSegments

\* C14 as the code has it: casbin_permission_decode pads to 5 segments and never cuts:
\* a string with at most four "#" gives exactly 5 segments, a string with more gives
\* one segment more than it has "#".
C14_AtLeastFive ==
    pure_out.op = "decode" =>
        LET n == Delimiters(pure_out.string)
        IN Len(pure_out.decoded) = IF n + 1 < NSegments THEN NSegments ELSE n + 1

\* a string with five "#" decodes to six segments
C14_Witness ==
    /\ pure_out.op = "decode"
    /\ pure_out.string = <<"a", "#", "#", "#", "#", "#">>
    /\ Len(pure_out.decoded) = 6

\* C15: encode_admin_action gives "admin:page" for "page", "admin:page:" + action for
\* list, update, bulk_update, create, bulk_create, read and submit, and
\* "admin:page:action:" + x for every other string x.
C15_ActionKey ==
    pure_out.op = "encode_admin_action" =>
        LET x == pure_out.values[1]
        IN pure_out.string =
             IF x = "page" THEN <<"admin:", "page">>
             ELSE IF x \in {"list", "update", "bulk_update", "create", "bulk_create", "read",
                            "submit"}
                  THEN <<"admin:", "page:", x>>
             ELSE <<"admin:", "page:", "action:", x>>

\* a bulk verb gets a key of its own, not the custom-action shape
C15_Witness ==
    /\ pure_out.op = "encode_admin_action"
    /\ pure_out.values = <<"bulk_create">>
    /\ pure_out.string = <<"admin:", "page:", "bulk_create">>

(***************************************************************************)
(* Properties over several requests                                        *)
(***************************************************************************)

\* C16: the first get_deny_fields call of a request on an action never returns a set
\* stored by an earlier request: it asks the engine and returns what the policy that
\* is current at the call refuses.
C16_RequestScoped ==
    (ret.req = req_no /\ ret.first) =>
        /\ ~ret.hit
        /\ ret.action \in FieldActions =>
              ret.fields = { f \in DOMAIN get_permission_fields(permission_exclude, ret.action) :
                               EnforceKey(SubjectOf(identity), ret.action, f) \notin ret.policy }

\* the same subject, the same action, a later request, another policy: another deny-set
C16_Witness ==
    /\ ret.req = req_no /\ ret.first /\ req_no > 1
    /\ history.prev.req # 0 /\ history.prev.req < req_no
    /\ history.prev.identity = identity
    /\ history.prev.policy # ret.policy
    /\ history.prev.fields # ret.fields /\ history.prev.fields # {}

(***************************************************************************)
(* Properties of the UI schema generation                                  *)
(***************************************************************************)

\* C17: get_form_item consults the deny-set of filter when called with list and of the
\* action itself otherwise, get_list_column consults the deny-set of list; each returns
\* None for a field whose alias-or-name is in that deny-set and the default generation
\* result for every other field.
C17_GeneratorsUseRightDenySet ==
    /\ (out.req = req_no /\ out.op = "get_form_item") =>
          LET mf == out.input[1]
              action == out.input[2]
              name == IF mf.alias \in {None, ""} THEN mf.name ELSE mf.alias
              D == DenyNow(IF action = "list" THEN "filter" ELSE action).fields
          IN out.output = <<IF name \in D THEN [node |-> None]
                            ELSE [node |-> "FormItem", name |-> name, action |-> action]>>
    /\ (out.req = req_no /\ out.op = "get_list_column") =>
          LET mf == out.input[1]
              name == IF mf.alias \in {None, ""} THEN mf.name ELSE mf.alias
          IN out.output = <<IF name \in DenyNow("list").fields THEN [node |-> None]
                            ELSE [node |-> "TableColumn", name |-> name]>>

\* get_form_item for the list action suppresses a field that is denied for filter by
\* its alias, although the field is granted for list
C17_Witness ==
    /\ out.req = req_no /\ out.op = "get_form_item"
    /\ out.input = <<ModelField("pay", "salary"), "list">>
    /\ out.output = <<[node |-> None]>>
    /\ "salary" \in DOMAIN get_permission_fields(permission_exclude, "list")
    /\ "salary" \notin DenyNow("list").fields

(***************************************************************************)
(* Properties of concurrent role updates                                   *)
(***************************************************************************)

\* C18: casbin_update_subject_roles is not atomic: a reader that runs between its
\* delete and its add (no other writer involved) finds the subject without any role,
\* the old ones gone and the new ones not yet there.
C18_RolesWindow ==
    observed.during =>
        /\ observed.new # {}
        /\ observed.roles = {}

\* the subject had role a and is given roles a and b; the reader sees neither
C18_Witness ==
    /\ observed.during
    /\ observed.old = { <<Alice, <<"r:", "a">>>> }
    /\ observed.new = { <<Alice, <<"r:", "a">>>>, <<Alice, <<"r:", "b">>>> }
    /\ observed.roles = {}

(***************************************************************************)
(* Frame properties of the CRUD mixin                                      *)
(***************************************************************************)

\* C19: no hook, route or get_deny_fields call changes the exclusion configuration, and
\* a Permission Field Set that has been computed stays as it is in every later state.
C19_FieldSetsFrozen ==
    [][ /\ permission_exclude' = permission_exclude
        /\ \A a \in DOMAIN perm_cache :
              a \in DOMAIN perm_cache' /\ perm_cache'[a] = perm_cache[a] ]_vars

\* in a later request a hook strips a field for the second time while the Permission
\* Field Set of the hook's action still holds that field
C19_Witness ==
    /\ req_no > 1 /\ out.req = req_no /\ out.op = "on_update_pre"
    /\ ret.req = req_no /\ ret.action = "update" /\ ret.hit
    /\ "name" \in DOMAIN out.input[1] /\ "name" \notin DOMAIN out.output[1]
    /\ "update" \in DOMAIN perm_cache /\ "name" \in DOMAIN perm_cache["update"]

(***************************************************************************)
(* Safety of the filtered option tree                                      *)
(***************************************************************************)

\* the value of the option of a resource's page or action
OptionValue(uid, name) == <<uid, "#", "admin:", name, "#", "#", "#">>

\* C20: for a subject other than root, the value of every node of the returned tree, at
\* every depth, is one of the subject's implicit permissions.
C20_OnlyAllowedOptions ==
    Filtered =>
        \A q \in Paths(opt_out.result) : q[Len(q)] \in opt_out.permissions

\* bob holds sys, roles and the update action of roles through a role: the list action
\* of roles, which bob lacks, is not returned below the allowed roles page
C20_Witness ==
    /\ opt_out.subject = Bob
    /\ opt_out.permissions = { OptionValue("sys", "page"), OptionValue("roles", "page"),
                               OptionValue("roles", "update") }
    /\ <<OptionValue("sys", "page"), OptionValue("roles", "page"), OptionValue("roles", "list")>>
         \in Paths(opt_out.input)
    /\ Paths(opt_out.result) =
         { <<OptionValue("sys", "page")>>,
           <<OptionValue("sys", "page"), OptionValue("roles", "page")>>,
           <<OptionValue("sys", "page"), OptionValue("roles", "page"),
             OptionValue("roles", "update")>> }

(***************************************************************************)
(* Concurrent permission updates                                           *)
(***************************************************************************)

\* the permission strings of a list, as a set
StringsOf(permissions) == { permissions[i] : i \in 1..Len(permissions) }

\* C21: when two casbin_update_subject_permissions calls for one subject have run
\* concurrently and both have returned, the subject's direct permissions are those of
\* the one list or those of the other.
C21_OneOfTheTwo ==
    (/\ \A t \in Tasks : race.called[t].made /\ task[t].pc = "idle"
     /\ race.overlap)
    => \E t \in Tasks :
          casbin_get_subject_permissions(p, g, Alice, FALSE)
              = StringsOf(race.called[t].permissions)

====
